---- MODULE Spec2Model ----
(***************************************************************************)
(* Model of the Stopwatch value type of stopwatch-rs (src/lib.rs).         *)
(*                                                                         *)
(* Instants and durations are counted in nanoseconds.  The monotonic clock *)
(* is the variable clock; every Instant::now() of the code reads it.  The  *)
(* clock never goes back and may stay where it is between two reads.       *)
(***************************************************************************)
EXTENDS Integers, Sequences, FiniteSets, TLC

(* ------------------------------ bounds --------------------------------- *)

\* The clock readings of the model lie in the milliseconds 0..MaxMillis.
MaxMillis == 1

(* --------------------------- program constants ------------------------- *)

\* Duration::as_millis: nanoseconds per whole millisecond.
NanosPerMilli == 1000000

(* ------------------------------ values --------------------------------- *)

\* Option<T>: None and Some(x).
None == << >>

Some(x) == << x >>

\* The stopwatch instances of the model: an original and a duplicate.
Ids == {1, 2}

\* The clock readings the model draws from: around each millisecond boundary.
Instants ==
  { m * NanosPerMilli + o : m \in 0..MaxMillis, o \in {0, NanosPerMilli - 1} }

\* The return value of the operations returning ().
Unit == "unit"

VARIABLES
  clock,   \* the monotonic clock: the value the next Instant::now() returns
  sw,      \* sw[i]: the fields of stopwatch instance i
  call,    \* the last operation: its name, instance, state before, reads, result
  since,   \* since[i]: clock advance since the latest start of i, while i runs
  lap,     \* lap[i]: result of the latest split() of i in this running interval
  held     \* held[i]: the start instants that i, or its origin, has held and
           \* that the clock, which never goes back, can still return

vars == << clock, sw, call, since, lap, held >>

(* ------------------------- impl Stopwatch ------------------------------ *)

\* impl Default for Stopwatch
Default == [start_time |-> None, last_split |-> None, elapsed |-> 0]

\* A constructor that leaves a duration in elapsed.
new_dirty == [start_time |-> None, last_split |-> None, elapsed |-> NanosPerMilli]

\* Stopwatch::new
new == Default

\* Instant::elapsed: now - self, saturating at zero.
InstantElapsed(t1, now) == IF now >= t1 THEN now - t1 ELSE 0

\* A start that leaves the recorded split in place.
start_keeps_split(self, now) ==
  [[self EXCEPT !.start_time = Some(now)] EXCEPT !.elapsed = 0]

\* A start that keeps the start instant of a stopwatch already running.
start_if_idle(self, now) ==
  [[[self EXCEPT !.start_time = IF self.start_time # None THEN self.start_time
                                                           ELSE Some(now)]
           EXCEPT !.last_split = None]
           EXCEPT !.elapsed = 0]

\* A start that keeps the stored elapsed.
start_keeps_elapsed(self, now) ==
  [[self EXCEPT !.start_time = Some(now)] EXCEPT !.last_split = None]

\* Stopwatch::start, with now the reading of Instant::now().
start(self, now) ==
  [[[self EXCEPT !.start_time = Some(now)]
           EXCEPT !.last_split = None]
           EXCEPT !.elapsed = 0]

\* A start_new that does not call start.
start_new_idle(now) == Default

\* Stopwatch::start_new
start_new(now) == start(Default, now)

\* A stop that leaves the recorded split in place.
stop_keeps_split(self, now) ==
  IF self.start_time # None
  THEN LET e == InstantElapsed(self.start_time[1], now)
       IN  [self |-> [start_time |-> None, last_split |-> self.last_split,
                      elapsed |-> e],
            ret  |-> e]
  ELSE [self |-> self, ret |-> 0]

\* A stop that zeroes elapsed when the stopwatch is not running.
stop_zeroes_idle(self, now) ==
  IF self.start_time # None
  THEN LET e == InstantElapsed(self.start_time[1], now)
       IN  [self |-> [start_time |-> None, last_split |-> None, elapsed |-> e],
            ret  |-> e]
  ELSE [self |-> [self EXCEPT !.elapsed = 0], ret |-> 0]

\* Stopwatch::stop, with now the reading inside t1.elapsed().
stop(self, now) ==
  IF self.start_time # None
  THEN LET e == InstantElapsed(self.start_time[1], now)
       IN  [self |-> [start_time |-> None, last_split |-> None, elapsed |-> e],
            ret  |-> e]
  ELSE [self |-> self, ret |-> 0]

\* A reset that keeps the stored elapsed.
reset_keeps_elapsed(self) ==
  [start_time |-> None, last_split |-> None, elapsed |-> self.elapsed]

\* Stopwatch::reset
reset(self) == Default

\* A restart that only takes a new start instant.
restart_keeps_fields(self, now) == [self EXCEPT !.start_time = Some(now)]

\* Stopwatch::restart
restart(self, now) == start(Default, now)

\* A split that moves the start instant to the split.
split_from_now(self, now1, now2) ==
  IF self.start_time # None
  THEN LET e == InstantElapsed(self.start_time[1], now2)
       IN  [self |-> [start_time |-> Some(now1), last_split |-> Some(now1),
                      elapsed |-> e],
            ret  |-> Some(e)]
  ELSE [self |-> self, ret |-> None]

\* A split that records the instant even when the stopwatch is not running.
split_marks_idle(self, now1, now2) ==
  IF self.start_time # None
  THEN LET e == InstantElapsed(self.start_time[1], now2)
       IN  [self |-> [[self EXCEPT !.last_split = Some(now1)]
                            EXCEPT !.elapsed = e],
            ret  |-> Some(e)]
  ELSE [self |-> [self EXCEPT !.last_split = Some(now1)], ret |-> None]

\* A split that measures from the previous split (a lap time).
split_lap(self, now1, now2) ==
  IF self.start_time # None
  THEN LET from == IF self.last_split # None THEN self.last_split[1]
                                             ELSE self.start_time[1]
           e    == InstantElapsed(from, now2)
       IN  [self |-> [[self EXCEPT !.last_split = Some(now1)]
                            EXCEPT !.elapsed = e],
            ret  |-> Some(e)]
  ELSE [self |-> self, ret |-> None]

\* A split that halts the stopwatch.
split_stops(self, now1, now2) ==
  IF self.start_time # None
  THEN LET e == InstantElapsed(self.start_time[1], now2)
       IN  [self |-> [start_time |-> None, last_split |-> Some(now1),
                      elapsed |-> e],
            ret  |-> Some(e)]
  ELSE [self |-> self, ret |-> None]

\* Stopwatch::split: now1 is the reading of Instant::now() stored in
\* last_split, now2 the later reading inside t1.elapsed().
split(self, now1, now2) ==
  IF self.start_time # None
  THEN LET e == InstantElapsed(self.start_time[1], now2)
       IN  [self |-> [[self EXCEPT !.last_split = Some(now1)]
                            EXCEPT !.elapsed = e],
            ret  |-> Some(e)]
  ELSE [self |-> self, ret |-> None]

\* #[derive(Clone, Copy)]: a field-by-field copy.
clone(self) ==
  [start_time |-> self.start_time,
   last_split |-> self.last_split,
   elapsed    |-> self.elapsed]

\* Duration::as_millis: the whole milliseconds of a duration in nanoseconds.
as_millis(d) == d \div NanosPerMilli

\* The characters of the decimal digits 0..9.
DigitChars == << "0", "1", "2", "3", "4", "5", "6", "7", "8", "9" >>

\* Display for an unsigned integer ("{}"): its decimal digits, as characters.
RECURSIVE ToDecimal(_)
ToDecimal(n) ==
  IF n < 10 THEN << DigitChars[n + 1] >>
            ELSE ToDecimal(n \div 10) \o << DigitChars[(n % 10) + 1] >>

\* A rendering that rounds to the nearest millisecond.
fmt_rounds(self) ==
  ToDecimal((self.elapsed + (NanosPerMilli \div 2)) \div NanosPerMilli)
     \o << "m", "s" >>

\* impl Display for Stopwatch: write!(f, "{}ms", self.elapsed.as_millis()).
fmt(self) == ToDecimal(as_millis(self.elapsed)) \o << "m", "s" >>

(* --------------------------- bookkeeping ------------------------------- *)

Running(s) == s.start_time # None

StartsOf(s) == IF Running(s) THEN {s.start_time[1]} ELSE {}

\* The instants of h that a reading of the clock at or after t can still return.
StillReadable(h, t) == { x \in h : x >= t }

\* The record of an operation on instance i: the fields, the latest split
\* result and the held start instants of i before it, its clock readings and
\* its result.
Call(op, i, pre, now, ret, preLap, preHeld) ==
  [op |-> op, id |-> i, pre |-> pre, now |-> now, ret |-> ret,
   lap |-> preLap, held |-> preHeld]

\* An operation on a handle that every instance shares.
Apply_aliased(i, op, post, now, ret, newSince, newLap, oldHeld) ==
  /\ sw'    = [j \in Ids |-> post]
  /\ call'  = Call(op, i, sw[i], now, ret, lap[i], held[i])
  /\ since' = [since EXCEPT ![i] = newSince]
  /\ lap'   = [lap EXCEPT ![i] = newLap]
  /\ held'  = [held EXCEPT ![i] = oldHeld \cup StartsOf(post)]

\* The part of a step every operation on instance i shares: the fields of i
\* become post, the other instance is left alone, the call is recorded.
Apply(i, op, post, now, ret, newSince, newLap, oldHeld) ==
  /\ sw'    = [sw EXCEPT ![i] = post]
  /\ call'  = Call(op, i, sw[i], now, ret, lap[i], held[i])
  /\ since' = [since EXCEPT ![i] = newSince]
  /\ lap'   = [lap EXCEPT ![i] = newLap]
  /\ held'  = [held EXCEPT ![i] = oldHeld \cup StartsOf(post)]

(* ------------------------------ actions -------------------------------- *)

Init ==
  /\ clock \in Instants
  /\ sw    = [i \in Ids |-> new]
  /\ call  = Call("new", 1, Default, clock, Unit, None, {})
  /\ since = [i \in Ids |-> 0]
  /\ lap   = [i \in Ids |-> None]
  /\ held  = [i \in Ids |-> {}]

\* Time passes between two operations (the tests' sleep).
Tick ==
  /\ \E t \in Instants :
       /\ t > clock
       /\ clock' = t
       /\ since' = [i \in Ids |->
                      IF Running(sw[i]) THEN since[i] + (t - clock) ELSE since[i]]
       /\ call'  = Call("tick", 0, Default, t, Unit, None, {})
       /\ held'  = [i \in Ids |-> StillReadable(held[i], t)]
  /\ UNCHANGED << sw, lap >>

\* let sw = Stopwatch::new();
New(i) ==
  /\ Apply(i, "new", new, clock, Unit, 0, None, {})
  /\ UNCHANGED clock

\* let sw = Stopwatch::start_new();
StartNew(i) ==
  /\ Apply(i, "start_new", start_new(clock), clock, Unit, 0, None, {})
  /\ UNCHANGED clock

\* sw.start();
Start(i) ==
  /\ Apply(i, "start", start(sw[i], clock), clock, Unit, 0, None, held[i])
  /\ UNCHANGED clock

\* sw.stop();
Stop(i) ==
  /\ LET r == stop(sw[i], clock)
     IN  Apply(i, "stop", r.self, clock, r.ret, since[i], None, held[i])
  /\ UNCHANGED clock

\* sw.reset();
Reset(i) ==
  /\ Apply(i, "reset", reset(sw[i]), clock, Unit, 0, None, held[i])
  /\ UNCHANGED clock

\* sw.restart();
Restart(i) ==
  /\ Apply(i, "restart", restart(sw[i], clock), clock, Unit, 0, None, held[i])
  /\ UNCHANGED clock

\* sw.split(); the clock may advance between the two readings of split.
Split(i) ==
  \E now2 \in Instants :
    /\ now2 >= clock
    /\ clock' = now2
    /\ LET r == split(sw[i], clock, now2)
       IN  /\ sw'    = [sw EXCEPT ![i] = r.self]
           /\ call'  = Call("split", i, sw[i], << clock, now2 >>, r.ret,
                             lap[i], held[i])
           /\ since' = [j \in Ids |->
                          IF Running(sw[j]) THEN since[j] + (now2 - clock)
                                            ELSE since[j]]
           /\ lap'   = [lap EXCEPT ![i] = IF Running(sw[i]) THEN r.ret ELSE lap[i]]
           /\ held'  = [j \in Ids |-> StillReadable(held[j], now2)]

\* let mut sw2 = sw1.clone();
Clone(i, j) ==
  /\ i # j
  /\ sw'    = [sw EXCEPT ![j] = clone(sw[i])]
  /\ call'  = Call("clone", j, sw[j], clock, Unit, lap[j], held[j])
  /\ since' = [since EXCEPT ![j] = since[i]]
  /\ lap'   = [lap EXCEPT ![j] = lap[i]]
  /\ held'  = [held EXCEPT ![j] = held[i]]
  /\ UNCHANGED clock

\* format!("{}", sw): renders instance i; no field changes.
Render(i) ==
  /\ call' = Call("fmt", i, sw[i], clock, fmt(sw[i]), lap[i], held[i])
  /\ UNCHANGED << clock, sw, since, lap, held >>

Next ==
  \/ Tick
  \/ \E i \in Ids : New(i)
  \/ \E i \in Ids : StartNew(i)
  \/ \E i \in Ids : Start(i)
  \/ \E i \in Ids : Stop(i)
  \/ \E i \in Ids : Reset(i)
  \/ \E i \in Ids : Restart(i)
  \/ \E i \in Ids : Split(i)
  \/ \E i, j \in Ids : Clone(i, j)
  \/ \E i \in Ids : Render(i)

Spec == Init /\ [][Next]_vars

(* ------------------- rendering of measured durations ------------------- *)

\* The whole milliseconds of the durations rendered: around every change of
\* the number of digits, the 1500 ms of the documentation, and the largest
\* the model's integers hold.
RenderMillis ==
  {0, 1, 2, 9, 10, 11, 99, 100, 101, 999, 1000, 1001, 1499, 1500, 1501, 2146}

\* The durations rendered: exact milliseconds and the sub-millisecond
\* remainders 1 ns and 999999 ns.
RenderDurations ==
  { m * NanosPerMilli + o : m \in RenderMillis, o \in {0, 1, NanosPerMilli - 1} }

\* Instance 1 was started at instant 0 and stopped when the clock read d;
\* instance 2 is fresh.
FmtInit ==
  \E d \in RenderDurations :
    /\ clock = d
    /\ sw    = [i \in Ids |-> IF i = 1 THEN stop(start_new(0), d).self ELSE new]
    /\ call  = Call("stop", 1, start_new(0), d, stop(start_new(0), d).ret,
                    None, StillReadable({0}, d))
    /\ since = [i \in Ids |-> IF i = 1 THEN d ELSE 0]
    /\ lap   = [i \in Ids |-> None]
    /\ held  = [i \in Ids |-> IF i = 1 THEN StillReadable({0}, d) ELSE {}]

FmtNext == \E i \in Ids : Render(i)

FmtSpec == FmtInit /\ [][FmtNext]_vars

(* ------------------------------ properties ----------------------------- *)

\* The instance the last operation acted on, as it is now.
Target == sw[call.id]

\* C1: stop() on a running stopwatch leaves start_time and last_split absent,
\* stores in elapsed the clock reading minus the start instant, and returns
\* the value it stored.
C1_StopRunning ==
  (call.op = "stop" /\ Running(call.pre)) =>
     /\ Target.start_time = None
     /\ Target.last_split = None
     /\ Target.elapsed = clock - call.pre.start_time[1]
     /\ call.ret = Target.elapsed

\* A running stopwatch holding a split was stopped after time had passed.
C1_Witness ==
  /\ call.op = "stop"
  /\ Running(call.pre)
  /\ call.pre.last_split # None
  /\ call.ret > 0

\* C2: stop() on a stopped stopwatch returns zero and changes no field,
\* whatever elapsed holds; a second stop() leaves the state of the first.
C2_StopStopped ==
  /\ (call.op = "stop" /\ ~Running(call.pre)) =>
        /\ call.ret = 0
        /\ Target = call.pre
  /\ \A i \in Ids : \A n1, n2 \in Instants :
        (clock <= n1 /\ n1 <= n2) =>
           /\ stop(stop(sw[i], n1).self, n2).self = stop(sw[i], n1).self
           /\ stop(stop(sw[i], n1).self, n2).ret = 0

\* stop() was called on a stopped stopwatch that holds a non-zero elapsed.
C2_Witness ==
  /\ call.op = "stop"
  /\ ~Running(call.pre)
  /\ call.pre.elapsed > 0
  /\ Target.elapsed > 0

\* C3: start() in any state leaves start_time present and equal to the
\* current clock reading, last_split absent and elapsed zero.
C3_Start ==
  (call.op = "start") =>
     /\ Target.start_time = Some(clock)
     /\ Target.last_split = None
     /\ Target.elapsed = 0

\* start() was called on a running stopwatch with a split and a non-zero
\* elapsed, at a later clock reading than its start.
C3_Witness ==
  /\ call.op = "start"
  /\ Running(call.pre)
  /\ call.pre.last_split # None
  /\ call.pre.elapsed > 0
  /\ call.pre.start_time # Target.start_time

\* C4: split() on a running stopwatch leaves start_time unchanged, sets
\* last_split present, stores elapsed = clock reading - start_time and
\* returns the stored elapsed as a present value.
C4_SplitRunning ==
  (call.op = "split" /\ Running(call.pre)) =>
     /\ Target.start_time = call.pre.start_time
     /\ Target.last_split # None
     /\ Target.elapsed = clock - call.pre.start_time[1]
     /\ call.ret = Some(Target.elapsed)

\* A running stopwatch without a split was split after time had passed.
C4_Witness ==
  /\ call.op = "split"
  /\ Running(call.pre)
  /\ call.pre.last_split = None
  /\ call.ret # None
  /\ Target.elapsed > 0

\* C5: split() on a stopped stopwatch returns absent and changes no field:
\* last_split stays absent and a non-zero elapsed is kept.
C5_SplitStopped ==
  (call.op = "split" /\ ~Running(call.pre)) =>
     /\ call.ret = None
     /\ Target = call.pre
     /\ Target.last_split = None

\* split() was called on a stopped stopwatch that holds a non-zero elapsed.
C5_Witness ==
  /\ call.op = "split"
  /\ ~Running(call.pre)
  /\ call.pre.elapsed > 0
  /\ Target.elapsed = call.pre.elapsed

\* C6: reset() in any state leaves start_time absent, last_split absent and
\* elapsed zero: the state new() returns.
C6_Reset ==
  (call.op = "reset") =>
     /\ Target.start_time = None
     /\ Target.last_split = None
     /\ Target.elapsed = 0
     /\ Target = new

\* reset() was called on a running stopwatch with a split and a non-zero
\* elapsed.
C6_Witness ==
  /\ call.op = "reset"
  /\ Running(call.pre)
  /\ call.pre.last_split # None
  /\ call.pre.elapsed > 0

\* C7: after restart(), start_time is present and differs from every start
\* instant that the instance, or the instance it was duplicated from, held
\* before the restart.
C7_RestartFreshInstant ==
  (call.op = "restart") =>
     /\ Running(Target)
     /\ Target.start_time[1] \notin call.held

\* C8: for the same clock reading, restart() produces the state that reset()
\* followed by start() produces: start_time at the current instant,
\* last_split absent, elapsed zero.
C8_RestartIsResetThenStart ==
  /\ \A i \in Ids : restart(sw[i], clock) = start(reset(sw[i]), clock)
  /\ (call.op = "restart") =>
        /\ Target = start(reset(call.pre), call.now)
        /\ Target = [start_time |-> Some(clock), last_split |-> None,
                     elapsed |-> 0]

\* restart() was called on a running stopwatch with a split and a non-zero
\* elapsed.
C8_Witness ==
  /\ call.op = "restart"
  /\ Running(call.pre)
  /\ call.pre.last_split # None
  /\ call.pre.elapsed > 0

\* C9: the duration stop() stores and returns on a running stopwatch is the
\* clock advance since the most recent start, start_new or restart: no less
\* than the delay since then, and nothing from before it.
C9_StopMeasuresLatestInterval ==
  (call.op = "stop" /\ Running(call.pre)) =>
     /\ call.ret = since[call.id]
     /\ Target.elapsed = since[call.id]

\* A stopwatch started after the clock had already advanced was stopped after
\* a delay: the result is positive and less than the clock reading.
C9_Witness ==
  /\ call.op = "stop"
  /\ Running(call.pre)
  /\ since[call.id] > 0
  /\ call.ret < call.now

\* C10: within one running interval the results of successive split() calls
\* do not decrease, and each is the clock advance since the start of the
\* interval, not since the previous split.
C10_SplitsCumulative ==
  (call.op = "split" /\ Running(call.pre)) =>
     /\ call.ret = Some(since[call.id])
     /\ call.lap # None => call.ret[1] >= call.lap[1]

\* A second split of the same interval returned more than the first, which
\* was itself positive.
C10_Witness ==
  /\ call.op = "split"
  /\ Running(call.pre)
  /\ call.lap # None
  /\ call.lap[1] > 0
  /\ call.ret[1] > call.lap[1]

\* C11: a duplicate is independent of the original: an operation applied to
\* one instance leaves start_time, last_split and elapsed of every other
\* instance unchanged.
C11_CopiesIndependent ==
  [][\A j \in Ids : (j # call'.id) => (sw'[j] = sw[j])]_vars

\* Of two equal copies, running with a split, one was restarted or stopped or
\* reset: the other still holds the fields both had, and the two now differ.
C11_Witness ==
  /\ call.op \in {"start", "stop", "reset", "restart", "split"}
  /\ Running(call.pre)
  /\ call.pre.last_split # None
  /\ \E j \in Ids : j # call.id /\ sw[j] = call.pre /\ sw[j] # Target

\* C12: new() returns a stopwatch with start_time absent, last_split absent
\* and elapsed zero.
C12_New ==
  (call.op = "new") =>
     /\ Target.start_time = None
     /\ Target.last_split = None
     /\ Target.elapsed = 0

\* new() was called after the clock had advanced, in place of a running
\* stopwatch.
C12_Witness ==
  /\ call.op = "new"
  /\ Running(call.pre)
  /\ clock > 0

\* C13: start_new() returns a running stopwatch: start_time present,
\* last_split absent, elapsed zero, the state new() followed by start()
\* yields at the same clock reading.
C13_StartNew ==
  /\ start_new(clock) = start(new, clock)
  /\ (call.op = "start_new") =>
        /\ Target.start_time # None
        /\ Target.last_split = None
        /\ Target.elapsed = 0
        /\ Target = start(new, call.now)

\* start_new() was called after the clock had advanced.
C13_Witness ==
  /\ call.op = "start_new"
  /\ Running(Target)
  /\ clock > 0

\* The value of a decimal digit character.
DigitValue(c) == CHOOSE k \in 0..9 : DigitChars[k + 1] = c

\* The number a sequence of decimal digit characters denotes.
RECURSIVE DecimalValue(_)
DecimalValue(ds) ==
  IF Len(ds) = 0 THEN 0
  ELSE 10 * DecimalValue(SubSeq(ds, 1, Len(ds) - 1)) + DigitValue(ds[Len(ds)])

\* C14: the rendering of a stored elapsed is the decimal count of its whole
\* milliseconds, the remainder truncated, followed by "ms", with no
\* separator or decimal point; 1500 ms renders as "1500ms".
C14_Rendering ==
  (call.op = "fmt") =>
     LET r      == call.ret
         n      == Len(r)
         digits == SubSeq(r, 1, n - 2)
         e      == call.pre.elapsed
     IN  /\ n >= 3
         /\ r[n - 1] = "m" /\ r[n] = "s"
         /\ \A k \in 1..(n - 2) : \E d \in 1..10 : digits[k] = DigitChars[d]
         /\ (n - 2 > 1) => digits[1] # "0"
         /\ DecimalValue(digits) * NanosPerMilli <= e
         /\ e < (DecimalValue(digits) + 1) * NanosPerMilli
         /\ (e = 1500 * NanosPerMilli) => r = << "1", "5", "0", "0", "m", "s" >>
         /\ Target = call.pre

\* A stored elapsed of 1500 ms and 999999 ns was rendered, as "1500ms".
C14_Witness ==
  /\ call.op = "fmt"
  /\ call.pre.elapsed = 1500 * NanosPerMilli + (NanosPerMilli - 1)
  /\ call.ret = << "1", "5", "0", "0", "m", "s" >>

\* C15: last_split is present exactly when a split() has succeeded since the
\* most recent start, start_new or restart with no stop() or reset() since;
\* last_split present implies start_time present.
C15_SplitPresence ==
  \A i \in Ids :
     /\ (sw[i].last_split # None) <=> (lap[i] # None)
     /\ (sw[i].last_split # None) => Running(sw[i])

\* A stopwatch that held a split was stopped and holds none now, while the
\* other instance still runs with its split.
C15_Witness ==
  /\ call.op = "stop"
  /\ call.pre.last_split # None
  /\ Target.last_split = None
  /\ \E j \in Ids : sw[j].last_split # None /\ Running(sw[j])

\* C16: whenever the stopwatch is stopped, the stored elapsed is 0 (the
\* comment of the field elapsed: "Is 0 if stopped").
C16_StoppedElapsedZero ==
  \A i \in Ids : ~Running(sw[i]) => sw[i].elapsed = 0

\* C17: split() takes last_split and elapsed from one clock reading: wherever
\* last_split is present, elapsed = last_split - start_time.
C17_SplitSingleReading ==
  \A i \in Ids :
     (sw[i].last_split # None /\ Running(sw[i])) =>
        sw[i].elapsed = sw[i].last_split[1] - sw[i].start_time[1]

\* The operations that act on an existing instance through &mut self.
Methods == {"start", "stop", "reset", "restart", "split"}

\* Instance i is a value newly bound by the step: constructed or duplicated.
Rebound(i) == call'.id = i /\ call'.op \in {"new", "start_new", "clone"}

\* C18: the stored elapsed and its rendering change only when an operation
\* runs: the clock advancing leaves them unchanged, a running stopwatch gets
\* a new measurement only from stop() or split(), and a running stopwatch
\* not split since its start stores and renders zero whatever time passed.
C18_ElapsedChangesOnlyByOperations ==
  /\ [](\A i \in Ids :
          (Running(sw[i]) /\ lap[i] = None) =>
             /\ sw[i].elapsed = 0
             /\ fmt(sw[i]) = << "0", "m", "s" >>)
  /\ [][/\ (call'.op \in {"tick", "fmt"}) =>
             \A i \in Ids : /\ sw'[i].elapsed = sw[i].elapsed
                            /\ fmt(sw'[i]) = fmt(sw[i])
        /\ \A i \in Ids :
             (Running(sw[i]) /\ ~Rebound(i) /\ sw'[i].elapsed # sw[i].elapsed) =>
                /\ call'.id = i
                /\ call'.op \in Methods
                /\ (call'.op \notin {"stop", "split"}) => sw'[i].elapsed = 0
       ]_vars

\* A running stopwatch never split was rendered after time had passed: "0ms".
C18_Witness ==
  /\ call.op = "fmt"
  /\ Running(call.pre)
  /\ lap[call.id] = None
  /\ since[call.id] > 0
  /\ call.ret = << "0", "m", "s" >>

\* C19: a stopped stopwatch becomes running only through start(), start_new()
\* or restart(); a running one becomes stopped only through stop() or
\* reset(); split() never changes whether it runs; start() on a running
\* stopwatch keeps it running, its start instant newly read from the clock.
C19_RunningTransitions ==
  [][/\ \A i \in Ids :
          ~Rebound(i) =>
             /\ (~Running(sw[i]) /\ Running(sw'[i])) =>
                   (call'.id = i /\ call'.op \in {"start", "restart"})
             /\ (Running(sw[i]) /\ ~Running(sw'[i])) =>
                   (call'.id = i /\ call'.op \in {"stop", "reset"})
             /\ (call'.op = "split") => (Running(sw'[i]) = Running(sw[i]))
             /\ (call'.op = "start" /\ call'.id = i /\ Running(sw[i])) =>
                   (Running(sw'[i]) /\ sw'[i].start_time = Some(clock'))
     /\ (call'.op = "start_new") => Running(sw'[call'.id])
    ]_vars

\* split() was called on a running stopwatch that already held a split, and
\* the stopwatch still runs from the same start instant.
C19_Witness ==
  /\ call.op = "split"
  /\ Running(call.pre)
  /\ call.pre.last_split # None
  /\ Running(Target)
  /\ Target.start_time = call.pre.start_time

\* C20: if the stopwatch is running and last_split is absent then elapsed is
\* zero; a non-zero elapsed implies stopped or a split in this interval.
C20_RunningUnsplitZero ==
  \A i \in Ids :
     /\ (Running(sw[i]) /\ sw[i].last_split = None) => sw[i].elapsed = 0
     /\ (sw[i].elapsed # 0) => (~Running(sw[i]) \/ sw[i].last_split # None)

\* A stopwatch holding a measured duration was started again: it runs, holds
\* no split and its elapsed is zero.
C20_Witness ==
  /\ call.op \in {"start", "restart"}
  /\ call.pre.elapsed > 0
  /\ Running(Target)
  /\ Target.last_split = None
  /\ Target.elapsed = 0

====
